---- MODULE Spec2Model ----
(***************************************************************************)
(* Python-Photo-Filter: the History class (src/history.py), the Filters    *)
(* class (src/filters.py) and the event handlers of ImageEditorApp         *)
(* (src/gui.py).                                                           *)
(*                                                                         *)
(* Image objects live in a heap: an object is a position of `heap`, its    *)
(* pixel content the value stored there.  0 stands for Python's None.      *)
(***************************************************************************)
EXTENDS Integers, Sequences, FiniteSets, TLC

VARIABLES
    driver,     \* who owns the History: "client" (direct calls) or "app" (ImageEditorApp)
    history,    \* History.history: list of image objects
    index,      \* History.index
    log,        \* the last two calls of History methods, the older first
    heap,       \* image objects: heap[o] is the pixel content of object o
    image,      \* ImageEditorApp.image: an object, or None
    windows,    \* open "Enter Kernel Values" windows: the kernel_size each one captured
    ev,         \* what the last GUI handler did
    fin,        \* direct calls of Filters: the image passed in,
    fcall,      \*   the method called and its parameter,
    fout        \*   and the outcome

appvars == <<driver, history, index, log, heap, image, windows, ev>>

fvars == <<fin, fcall, fout>>

vars == <<appvars, fvars>>

None == 0

(* ---------------------------- bounds ----------------------------------- *)
MaxHist == 3        \* add_state is not issued when it would make the list longer
NClientImages == 3  \* image objects a direct client of History hands in (A, B, C)
MaxObjects == 6     \* image objects the app allocates (two per committed edit)
MaxWindows == 1     \* kernel windows open at the same time
ArgSlack == 1       \* how far outside its domain a direct call's parameter goes

ClientImages == 1..NClientImages

(* ------------------------ Python list semantics ------------------------ *)
\* s[:k]  (k may be negative or past the end)
PySliceTo(s, k) ==
    LET n == Len(s)
        stop == IF k < 0 THEN (IF n + k < 0 THEN 0 ELSE n + k)
                ELSE (IF k > n THEN n ELSE k)
    IN  SubSeq(s, 1, stop)

\* s[i]: IndexError unless -len <= i < len; a negative i counts from the end
PyGetItem(s, i) ==
    LET n == Len(s)
        j == IF i < 0 THEN i + n ELSE i
    IN  IF j < 0 \/ j >= n
        THEN [raised |-> TRUE, val |-> None]
        ELSE [raised |-> FALSE, val |-> s[j + 1]]

(* ------------------------------- images -------------------------------- *)
\* An RGB image: w, h and its pixels in row-major order, a pixel <<r, g, b>>.
NoImage == [w |-> 0, h |-> 0, px |-> <<>>]

Solid(w, h, rgb) == [w |-> w, h |-> h, px |-> [k \in 1..(w * h) |-> rgb]]

White == <<255, 255, 255>>

Pixel(img, x, y) == img.px[y * img.w + x + 1]     \* 0 <= x < w, 0 <= y < h

\* Image.point(lut) on an RGB image: the table applied to every channel
Point(img, lut) ==
    [img EXCEPT !.px = [k \in DOMAIN img.px |-> [c \in 1..3 |-> lut[img.px[k][c]]]]]

Returned(img) == [raised |-> FALSE, img |-> img]

Raised == [raised |-> TRUE, img |-> NoImage]

Pow2(n) == IF n <= 0 THEN 1 ELSE 2 ^ n

Clip(x, lo, hi) == IF x < lo THEN lo ELSE IF x > hi THEN hi ELSE x

(* ------------------------------- Filters ------------------------------- *)
\* Image.convert("L").convert("RGB"): ITU-R 601-2 luma, rounded, in all channels
Luma(rgb) == (rgb[1] * 19595 + rgb[2] * 38470 + rgb[3] * 7471 + 32768) \div 65536

classic_black_and_white(img) ==
    Returned([img EXCEPT !.px = [k \in DOMAIN img.px |->
                 [c \in 1..3 |-> Luma(img.px[k])]]])

\* sepia_filter: np.array(img.convert("RGB")) is a new array; its channels
\* are replaced by weighted sums of the three channels, cut at 255 and
\* truncated by the cast to uint8.  The weights are in thousandths here; the
\* float64 sums are within 1e-12 of the exact ones, and their truncation is
\* the exact quotient's for every pixel of the images handled here.
SepiaChannel(rgb, tr) ==
    Clip((rgb[1] * tr[1] + rgb[2] * tr[2] + rgb[3] * tr[3]) \div 1000, 0, 255)

sepia_filter(img) ==
    Returned([img EXCEPT !.px = [k \in DOMAIN img.px |->
                 <<SepiaChannel(img.px[k], <<393, 769, 189>>),
                   SepiaChannel(img.px[k], <<349, 686, 168>>),
                   SepiaChannel(img.px[k], <<272, 534, 131>>)>>]])

\* ImageOps.solarize: lut[i] = i if i < threshold else 255 - i; no check of
\* the threshold
SolarizeLutLe(threshold) == [i \in 0..255 |-> IF i <= threshold THEN i ELSE 255 - i]

SolarizeLut(threshold) == [i \in 0..255 |-> IF i < threshold THEN i ELSE 255 - i]

solarize(img, threshold) == Returned(Point(img, SolarizeLut(threshold)))

\* ImageOps.posterize: mask = ~(2 ** (8 - bits) - 1), lut[i] = i & mask.
\* 2 ** (8 - bits) is a float for bits > 8, and ~ of a float is a TypeError;
\* for bits <= 0 the mask clears all eight bits.
PosterizeLutKeepLow(bits) == [i \in 0..255 |-> i - (i % Pow2(bits))]

PosterizeLut(bits) == [i \in 0..255 |-> i - (i % Pow2(8 - bits))]

posterize(img, bits) ==
    IF bits > 8 THEN Raised ELSE Returned(Point(img, PosterizeLut(bits)))

\* ImageOps.invert: lut[i] = 255 - i
InvertLutNegate == [i \in 0..255 |-> (256 - i) % 256]

InvertLut == [i \in 0..255 |-> 255 - i]

invert_colors(img) == Returned(Point(img, InvertLut))

\* Image.filter(Kernel): every band is filtered alone.  The core returns a
\* copy of an image smaller than the kernel, refuses a kernel that is not 3x3
\* or 5x5 ("bad kernel size"), and otherwise copies the border of width
\* size \div 2 and sets each inner channel to
\*     clip8(sum(kernel[k] / scale * in[k]) + offset + 0.5)
\* with the kernel's rows running from the row below the pixel to the row
\* above it.  clip8 cuts at 0 and 255 and drops the fraction.  The weights
\* are whole numbers here, and the sum is exact.
Clip8(num, den) ==      \* clip8(num / den), den # 0
    LET n == IF den < 0 THEN -num ELSE num
        d == IF den < 0 THEN -den ELSE den
    IN  IF n <= 0 THEN 0 ELSE IF n >= 255 * d THEN 255 ELSE n \div d

RECURSIVE SumSeq(_)
SumSeq(s) == IF s = <<>> THEN 0 ELSE Head(s) + SumSeq(Tail(s))

KernelSum(img, x, y, c, size, kernel) ==
    LET half == size \div 2
    IN  SumSeq([k \in 1..(size * size) |->
            LET row == (k - 1) \div size
                col == (k - 1) % size
            IN  kernel[k] * Pixel(img, x + col - half, y + half - row)[c]])

Convolve(img, size, kernel, scale, offset) ==
    LET half == size \div 2
    IN  [img EXCEPT !.px = [k \in DOMAIN img.px |->
            LET x == (k - 1) % img.w
                y == (k - 1) \div img.w
            IN  IF x < half \/ x >= img.w - half \/ y < half \/ y >= img.h - half
                THEN img.px[k]
                ELSE [c \in 1..3 |->
                        Clip8(2 * KernelSum(img, x, y, c, size, kernel)
                                + (2 * offset + 1) * scale, 2 * scale)]]]

KernelFilter(img, size, kernel, scale, offset) ==
    IF Len(kernel) # size * size THEN Raised    \* Kernel(): not enough coefficients
    ELSE IF img.w < size \/ img.h < size THEN Returned(img)
    ELSE IF size \notin {3, 5} THEN Raised
    ELSE Returned(Convolve(img, size, kernel, scale, offset))

custom_filter(img, kernel_elements, kernel_size) ==
    LET total == SumSeq(kernel_elements)
    IN  KernelFilter(img, kernel_size, kernel_elements,
                     IF total # 0 THEN total ELSE 1, 0)

\* ImageFilter.SHARPEN
sharpen(img) ==
    KernelFilter(img, 3, <<-2, -2, -2, -2, 32, -2, -2, -2, -2>>, 16, 0)

\* ImageFilter.GaussianBlur: a copy for radius 0; the core derives the box
\* sizes from radius * radius and rejects nothing.  ImageFilter.BoxBlur:
\* "radius must be >= 0".  Blurred is the blurred image where every
\* neighbourhood average is the pixel itself: radius 0, or one colour.
IsUniform(img) == \A k \in DOMAIN img.px : img.px[k] = img.px[1]

Blurred(img, radius) == img

gaussian_blur(img, radius) == Returned(Blurred(img, radius))

box_blur(img, radius) ==
    IF radius < 0 THEN Raised ELSE Returned(Blurred(img, radius))

\* add_noise: noise is the array np.random.randint(-amount, amount + 1, shape)
\* drew (ValueError when the range is empty); it is cast to int16, added to
\* the int16 image, clipped to 0..255 and cast to uint8.
Int16(x) == ((x + 32768) % 65536) - 32768


add_noise(img, amount, noise) ==
    IF -amount >= amount + 1 THEN Raised
    ELSE Returned([img EXCEPT !.px = [k \in DOMAIN img.px |->
             [c \in 1..3 |-> Clip(Int16(img.px[k][c] + Int16(noise[k][c])), 0, 255)]]])

\* A call of a Filters method as the GUI issues it: req names the method and
\* carries its parameter
RunFilter(req, img) ==
    CASE req.f = "classic_bw" -> classic_black_and_white(img)
      [] req.f = "solarize"   -> solarize(img, req.p)
      [] req.f = "posterize"  -> posterize(img, req.p)
      [] req.f = "invert"     -> invert_colors(img)
      [] req.f = "sharpen"    -> sharpen(img)
      [] req.f = "sepia"      -> sepia_filter(img)

(* ------------------------------ History -------------------------------- *)
\* Each method is a function of the object's fields (h = self.history,
\* i = self.index) giving the fields after the call, the returned object and
\* whether the call raised.

can_undo_ge(h, i) == i >= 0

can_undo(h, i) == i > 0

can_redo(h, i) == i < Len(h) - 1

add_state_keep_forward(h, i, img) ==
    [history |-> Append(h, img), index |-> i + 1, ret |-> None, raised |-> FALSE]

add_state(h, i, img) ==
    [history |-> Append(PySliceTo(h, i + 1), img), index |-> i + 1,
     ret |-> None, raised |-> FALSE]

undo_pop(h, i) ==
    LET j == IF can_undo(h, i) THEN i - 1 ELSE i
        r == PyGetItem(h, j)
    IN  [history |-> PySliceTo(h, j + 1), index |-> j, ret |-> r.val, raised |-> r.raised]

undo(h, i) ==
    LET j == IF can_undo(h, i) THEN i - 1 ELSE i
        r == PyGetItem(h, j)
    IN  [history |-> h, index |-> j, ret |-> r.val, raised |-> r.raised]

redo_unguarded(h, i) ==
    LET r == PyGetItem(h, i + 1)
    IN  [history |-> h, index |-> i + 1, ret |-> r.val, raised |-> r.raised]

redo(h, i) ==
    LET j == IF can_redo(h, i) THEN i + 1 ELSE i
        r == PyGetItem(h, j)
    IN  [history |-> h, index |-> j, ret |-> r.val, raised |-> r.raised]

clear_keep_index(h, i) ==
    [history |-> <<>>, index |-> i, ret |-> None, raised |-> FALSE]

clear(h, i) ==
    [history |-> <<>>, index |-> -1, ret |-> None, raised |-> FALSE]

(* --------------------------- call records ------------------------------ *)
Call(op, arg, h, i, res, b) ==
    [op |-> op, arg |-> arg, pre_history |-> h, pre_index |-> i,
     history |-> res.history, index |-> res.index,
     ret |-> res.ret, retb |-> b, raised |-> res.raised]

\* log holds the last two calls
Logged(l, rec) == IF Len(l) < 2 THEN Append(l, rec) ELSE Append(Tail(l), rec)

Same(h, i) == [history |-> h, index |-> i, ret |-> None, raised |-> FALSE]

(* ------------------------ direct client of History --------------------- *)
ClientAddState(img) ==
    /\ driver = "client"
    /\ index + 1 < MaxHist
    /\ LET r == add_state(history, index, img)
       IN  /\ history' = r.history
           /\ index' = r.index
           /\ log' = Logged(log, Call("add_state", img, history, index, r, FALSE))
    /\ UNCHANGED <<driver, heap, image, windows, ev, fvars>>

ClientUndo ==
    /\ driver = "client"
    /\ LET r == undo(history, index)
       IN  /\ history' = r.history
           /\ index' = r.index
           /\ log' = Logged(log, Call("undo", None, history, index, r, FALSE))
    /\ UNCHANGED <<driver, heap, image, windows, ev, fvars>>

ClientRedo ==
    /\ driver = "client"
    /\ LET r == redo(history, index)
       IN  /\ history' = r.history
           /\ index' = r.index
           /\ log' = Logged(log, Call("redo", None, history, index, r, FALSE))
    /\ UNCHANGED <<driver, heap, image, windows, ev, fvars>>

ClientCanUndo ==
    /\ driver = "client"
    /\ log' = Logged(log, Call("can_undo", None, history, index,
                               Same(history, index), can_undo(history, index)))
    /\ UNCHANGED <<driver, history, index, heap, image, windows, ev, fvars>>

ClientCanRedo ==
    /\ driver = "client"
    /\ log' = Logged(log, Call("can_redo", None, history, index,
                               Same(history, index), can_redo(history, index)))
    /\ UNCHANGED <<driver, history, index, heap, image, windows, ev, fvars>>

ClientClear ==
    /\ driver = "client"
    /\ LET r == clear(history, index)
       IN  /\ history' = r.history
           /\ index' = r.index
           /\ log' = Logged(log, Call("clear", None, history, index, r, FALSE))
    /\ UNCHANGED <<driver, heap, image, windows, ev, fvars>>

(* ----------------------------- ImageUtils ------------------------------ *)
\* The files the user can pick in the dialogs.  load_image returns a new RGB
\* image, or None when Image.open or convert raises.
Photo ==
    [w |-> 7, h |-> 7,
     px |-> [k \in 1..49 |-> <<(k * 5) % 256, (k * 37) % 256, 255 - k>>]]

Files == {"white.png", "photo.png", "notes.txt"}

load_image(file_path) ==
    CASE file_path = "white.png" -> [ok |-> TRUE, img |-> Solid(2, 2, White)]
      [] file_path = "photo.png" -> [ok |-> TRUE, img |-> Photo]
      [] OTHER -> [ok |-> FALSE, img |-> NoImage]

(* --------------------------- ImageEditorApp ---------------------------- *)
\* The fields a handler reads and writes, with what it did: raised (an
\* exception left the handler), called (a Filters method was invoked), added
\* (history.add_state was invoked) and args (the kernel_elements and
\* kernel_size custom_filter was called with).
NoArgs == [kernel_elements |-> <<>>, kernel_size |-> None]

App ==
    [image |-> image, history |-> history, index |-> index, heap |-> heap,
     log |-> log, raised |-> FALSE, called |-> FALSE, added |-> FALSE,
     args |-> NoArgs]

\* self.image = <result>; self.history.add_state(self.image.copy()), where
\* out is the outcome of the Filters call on the right-hand side, which is
\* evaluated first
commit_always(a, out) ==
    LET res == Len(a.heap) + 1
        cp == Len(a.heap) + 2
        new == IF out.raised THEN a.heap[a.image] ELSE out.img
        r == add_state(a.history, a.index, cp)
    IN  [a EXCEPT !.heap = a.heap \o <<new, new>>,
                  !.image = IF out.raised THEN a.image ELSE res,
                  !.history = r.history, !.index = r.index,
                  !.log = Logged(a.log, Call("add_state", cp, a.history, a.index, r, FALSE)),
                  !.called = TRUE, !.added = TRUE, !.raised = out.raised]

\* as if the Filters method wrote its result into the object it was passed
\* and returned that object
commit_in_place(a, out) ==
    IF out.raised
    THEN [a EXCEPT !.called = TRUE, !.raised = TRUE]
    ELSE LET cp == Len(a.heap) + 1
             r == add_state(a.history, a.index, cp)
         IN  [a EXCEPT !.heap = [a.heap EXCEPT ![a.image] = out.img] \o <<out.img>>,
                       !.history = r.history, !.index = r.index,
                       !.log = Logged(a.log,
                                  Call("add_state", cp, a.history, a.index, r, FALSE)),
                       !.called = TRUE, !.added = TRUE]

commit(a, out) ==
    IF out.raised
    THEN [a EXCEPT !.called = TRUE, !.raised = TRUE]
    ELSE LET res == Len(a.heap) + 1
             cp == Len(a.heap) + 2
             r == add_state(a.history, a.index, cp)
         IN  [a EXCEPT !.heap = a.heap \o <<out.img, out.img>>,
                       !.image = res,
                       !.history = r.history, !.index = r.index,
                       !.log = Logged(a.log,
                                  Call("add_state", cp, a.history, a.index, r, FALSE)),
                       !.called = TRUE, !.added = TRUE]

\* apply_classic_bw, apply_sepia_filter, apply_solarize_filter, apply_posterize_filter,
\* apply_invert_filter, apply_sharpen_filter: the same body around one
\* Filters method
filter_handler(a, req) ==
    IF a.image # None
    THEN commit(a, RunFilter(req, a.heap[a.image]))
    ELSE a      \* showwarning

\* add_noise(amount), noise being the array np.random.randint drew
add_noise_handler(a, amount, noise) ==
    IF a.image # None
    THEN commit(a, add_noise(a.heap[a.image], amount, noise))
    ELSE a      \* showwarning

open_image(a, file_path) ==
    IF file_path = "" THEN a
    ELSE
        LET ld == load_image(file_path)
        IN  IF ld.ok
            THEN LET obj == Len(a.heap) + 1
                     cp == Len(a.heap) + 2
                     c == clear(a.history, a.index)
                     r == add_state(c.history, c.index, cp)
                     l1 == Logged(a.log, Call("clear", None, a.history, a.index, c, FALSE))
                 IN  [a EXCEPT !.heap = a.heap \o <<ld.img, ld.img>>,
                               !.image = obj,
                               !.history = r.history, !.index = r.index,
                               !.log = Logged(l1,
                                   Call("add_state", cp, c.history, c.index, r, FALSE)),
                               !.added = TRUE]
            ELSE [a EXCEPT !.image = None]     \* showerror

\* as if undo() were called without asking can_undo()
app_undo_unguarded(a) ==
    LET r == undo(a.history, a.index)
    IN  [a EXCEPT !.history = r.history, !.index = r.index,
                  !.image = IF r.raised THEN a.image ELSE r.ret,
                  !.log = Logged(a.log, Call("undo", None, a.history, a.index, r, FALSE)),
                  !.raised = r.raised]

app_undo(a) ==
    LET l1 == Logged(a.log, Call("can_undo", None, a.history, a.index,
                                 Same(a.history, a.index), can_undo(a.history, a.index)))
    IN  IF can_undo(a.history, a.index)
        THEN LET r == undo(a.history, a.index)
             IN  [a EXCEPT !.history = r.history, !.index = r.index,
                           !.image = IF r.raised THEN a.image ELSE r.ret,
                           !.log = Logged(l1, Call("undo", None, a.history, a.index, r, FALSE)),
                           !.raised = r.raised]
        ELSE [a EXCEPT !.log = l1]      \* showinfo

app_redo(a) ==
    LET l1 == Logged(a.log, Call("can_redo", None, a.history, a.index,
                                 Same(a.history, a.index), can_redo(a.history, a.index)))
    IN  IF can_redo(a.history, a.index)
        THEN LET r == redo(a.history, a.index)
             IN  [a EXCEPT !.history = r.history, !.index = r.index,
                           !.image = IF r.raised THEN a.image ELSE r.ret,
                           !.log = Logged(l1, Call("redo", None, a.history, a.index, r, FALSE)),
                           !.raised = r.raised]
        ELSE [a EXCEPT !.log = l1]      \* showinfo

\* float(e.get()) for the texts typed into the kernel entries: "0", "1",
\* "-1", and texts that are no number ("abc", "")
ParseFloat(t) ==
    CASE t = "0"  -> [ok |-> TRUE, val |-> 0]
      [] t = "1"  -> [ok |-> TRUE, val |-> 1]
      [] t = "-1" -> [ok |-> TRUE, val |-> -1]
      [] OTHER    -> [ok |-> FALSE, val |-> 0]      \* ValueError

\* what the entries of a size x size kernel window can hold when Apply is
\* pressed: the default zeros, all ones, a centre 1 between -1s, and two
\* grids with an entry that is no number
KernelTexts(size) ==
    LET n == size * size
        mid == (n + 1) \div 2
    IN  { [k \in 1..n |-> "0"],
          [k \in 1..n |-> "1"],
          [k \in 1..n |-> IF k = mid THEN "1" ELSE "-1"],
          [k \in 1..n |-> IF k = 1 THEN "abc" ELSE "0"],
          [k \in 1..n |-> IF k = n THEN "" ELSE "1"] }

\* apply_kernel, the Apply button's callback (True = the window is destroyed)
apply_kernel_parsed(texts) ==
    [ok |-> \A k \in DOMAIN texts : ParseFloat(texts[k]).ok,
     kernel_elements |-> [k \in DOMAIN texts |-> ParseFloat(texts[k]).val]]

Calling(a, kernel_elements, kernel_size) ==
    [a EXCEPT !.args = [kernel_elements |-> kernel_elements, kernel_size |-> kernel_size]]

\* as if an entry that is no number counted as 0
apply_kernel_lenient(a, kernel_size, texts) ==
    LET pk == apply_kernel_parsed(texts)
        b == Calling(a, pk.kernel_elements, kernel_size)
    IN  IF a.image = None
        THEN [b EXCEPT !.called = TRUE, !.raised = TRUE]
        ELSE commit(b, custom_filter(a.heap[a.image], pk.kernel_elements, kernel_size))

apply_kernel(a, kernel_size, texts) ==
    LET pk == apply_kernel_parsed(texts)
        b == Calling(a, pk.kernel_elements, kernel_size)
    IN  IF ~pk.ok THEN a        \* showerror, return
        ELSE IF a.image = None
        THEN [b EXCEPT !.called = TRUE, !.raised = TRUE]    \* None has no filter()
        ELSE commit(b, custom_filter(a.heap[a.image], pk.kernel_elements, kernel_size))

(* ------------------------------ GUI events ----------------------------- *)
NoReq == [f |-> "none", p |-> 0]

\* the menu commands the user picks: Classic B&W, Sepia, Invert Colors,
\* Sharpen, Solarize > Threshold 128, Posterize > Bits 1
Requests ==
    {[f |-> n, p |-> 0] : n \in {"classic_bw", "sepia", "invert", "sharpen"}}
    \cup {[f |-> "solarize", p |-> 128], [f |-> "posterize", p |-> 1]}

\* what the kernel size dialog returns: None (cancelled) or a number in 3..9
KernelSizes == {None, 3, 4, 7}

Handled(name, req, b) ==
    /\ image' = b.image
    /\ history' = b.history
    /\ index' = b.index
    /\ heap' = b.heap
    /\ log' = b.log
    /\ ev' = [name |-> name, req |-> req, raised |-> b.raised, called |-> b.called,
              added |-> b.added, args |-> b.args, pre_image |-> image,
              pre_history |-> history, pre_index |-> index]
    /\ UNCHANGED <<driver, fvars>>

OnOpenImage(file_path) ==
    /\ driver = "app"
    /\ Len(heap) + 2 <= MaxObjects
    /\ Handled("open_image", [f |-> file_path, p |-> 0], open_image(App, file_path))
    /\ UNCHANGED windows

OnFilter(req) ==
    /\ driver = "app"
    /\ Len(heap) + 2 <= MaxObjects
    /\ Handled("filter", req, filter_handler(App, req))
    /\ UNCHANGED windows

\* Noise > Add Noise > Amount: the noise drawn is n in every channel
OnAddNoise(amount, n) ==
    /\ driver = "app"
    /\ Len(heap) + 2 <= MaxObjects
    /\ Handled("filter", [f |-> "add_noise", p |-> amount],
               add_noise_handler(App, amount,
                   IF image = None THEN <<>>
                   ELSE [k \in DOMAIN heap[image].px |-> <<n, n, n>>]))
    /\ UNCHANGED windows

OnUndo ==
    /\ driver = "app"
    /\ Handled("undo", NoReq, app_undo(App))
    /\ UNCHANGED windows

OnRedo ==
    /\ driver = "app"
    /\ Handled("redo", NoReq, app_redo(App))
    /\ UNCHANGED windows

\* apply_custom_filter: kernel_size is what askinteger(minvalue=3, maxvalue=9)
\* returned, None when the dialog was cancelled
OnCustomFilter(kernel_size) ==
    /\ driver = "app"
    /\ Len(windows) < MaxWindows
    /\ windows' = IF image # None /\ kernel_size # None /\ kernel_size % 2 = 1
                  THEN Append(windows, kernel_size)
                  ELSE windows      \* showerror / showwarning
    /\ Handled("apply_custom_filter", [f |-> "custom", p |-> kernel_size], App)

OnApplyKernel(k, texts) ==
    /\ driver = "app"
    /\ Len(heap) + 2 <= MaxObjects
    /\ windows' = IF apply_kernel_parsed(texts).ok
                  THEN SubSeq(windows, 1, k - 1) \o SubSeq(windows, k + 1, Len(windows))
                  ELSE windows
    /\ Handled("apply_kernel", [f |-> "custom", p |-> windows[k], texts |-> texts],
               apply_kernel(App, windows[k], texts))

\* the user closes a kernel window without pressing Apply
OnCloseKernelWindow(k) ==
    /\ driver = "app"
    /\ windows' = SubSeq(windows, 1, k - 1) \o SubSeq(windows, k + 1, Len(windows))
    /\ Handled("close_kernel_window", NoReq, App)

(* ----------------------------- specification --------------------------- *)
NoEvent ==
    [name |-> "none", req |-> NoReq, raised |-> FALSE, called |-> FALSE,
     added |-> FALSE, args |-> NoArgs, pre_image |-> None, pre_history |-> <<>>,
     pre_index |-> -1]

\* History() as a client constructs it, or ImageEditorApp.__init__.  The
\* client holds image objects of its own; the app starts with none.
Init ==
    /\ driver \in {"client", "app"}
    /\ history = <<>>
    /\ index = -1
    /\ log = <<>>
    /\ heap = IF driver = "client"
              THEN [k \in ClientImages |-> Solid(1, 1, <<k, k, k>>)]
              ELSE <<>>
    /\ image = None
    /\ windows = <<>>
    /\ ev = NoEvent
    /\ fin = NoImage
    /\ fcall = NoReq
    /\ fout = Returned(NoImage)

Next ==
    \/ \E img \in ClientImages : ClientAddState(img)
    \/ ClientUndo
    \/ ClientRedo
    \/ ClientCanUndo
    \/ ClientCanRedo
    \/ ClientClear
    \/ \E file_path \in Files \cup {""} : OnOpenImage(file_path)
    \/ \E req \in Requests : OnFilter(req)
    \/ \E amount \in {64} : \E n \in {-amount, amount} : OnAddNoise(amount, n)
    \/ OnUndo
    \/ OnRedo
    \/ \E kernel_size \in KernelSizes : OnCustomFilter(kernel_size)
    \/ \E k \in DOMAIN windows : \E texts \in KernelTexts(windows[k]) : OnApplyKernel(k, texts)
    \/ \E k \in DOMAIN windows : OnCloseKernelWindow(k)

Spec == Init /\ [][Next]_vars

(* -------------------- Filters called directly ------------------------- *)
\* The images handed to the methods: all-white 2x2, a 16x16 image whose
\* channels run through every value 0..255, and the 7x7 photo.
Ramp ==
    [w |-> 16, h |-> 16,
     px |-> [k \in 1..256 |-> <<k - 1, 256 - k, (k * 7) % 256>>]]

TestImages == {Solid(2, 2, White), Ramp, Photo}

Called(f, p, out) ==
    /\ driver = "filters"
    /\ fcall = NoReq
    /\ fcall' = [f |-> f, p |-> p]
    /\ fout' = out
    /\ UNCHANGED <<appvars, fin>>

CallSolarize(threshold) == Called("solarize", threshold, solarize(fin, threshold))

CallPosterize(bits) == Called("posterize", bits, posterize(fin, bits))

CallInvert == Called("invert", 0, invert_colors(fin))

\* invert_colors applied to its own result
CallInvertTwice ==
    LET once == invert_colors(fin)
    IN  Called("invert_twice", 0, IF once.raised THEN once ELSE invert_colors(once.img))

CallGaussianBlur(radius) ==
    /\ radius <= 0 \/ IsUniform(fin)
    /\ Called("gaussian_blur", radius, gaussian_blur(fin, radius))

CallBoxBlur(radius) ==
    /\ radius <= 0 \/ IsUniform(fin)
    /\ Called("box_blur", radius, box_blur(fin, radius))

\* the noise drawn: the same value n, or n and -n in turn, in every channel;
\* the call's record keeps the array
CallAddNoise(amount, n, alternate) ==
    LET noise == [k \in DOMAIN fin.px |->
                    [c \in 1..3 |-> IF alternate /\ (k + c) % 2 = 0 THEN -n ELSE n]]
    IN  /\ driver = "filters"
        /\ fcall = NoReq
        /\ fcall' = [f |-> "add_noise", p |-> amount, noise |-> noise]
        /\ fout' = add_noise(fin, amount, noise)
        /\ UNCHANGED <<appvars, fin>>

\* kernels whose weights are all the same number
CallCustomFilter(kernel_size, weight) ==
    LET kernel_elements == [k \in 1..(kernel_size * kernel_size) |-> weight]
    IN  /\ driver = "filters"
        /\ fcall = NoReq
        /\ fcall' = [f |-> "custom_filter", p |-> kernel_size,
                     kernel_elements |-> kernel_elements]
        /\ fout' = custom_filter(fin, kernel_elements, kernel_size)
        /\ UNCHANGED <<appvars, fin>>

FInit ==
    /\ driver = "filters"
    /\ history = <<>>
    /\ index = -1
    /\ log = <<>>
    /\ heap = <<>>
    /\ image = None
    /\ windows = <<>>
    /\ ev = NoEvent
    /\ fin \in TestImages
    /\ fcall = NoReq
    /\ fout = Returned(NoImage)

NoiseMenu == {32, 64, 128}

\* amounts typed into the "Add Noise" dialog, which has no upper limit
NoiseCustom == {32767, 40000}

FNext ==
    \/ \E threshold \in (0 - ArgSlack)..(255 + ArgSlack) : CallSolarize(threshold)
    \/ \E bits \in (1 - ArgSlack)..(8 + ArgSlack) : CallPosterize(bits)
    \/ CallInvert
    \/ CallInvertTwice
    \/ \E radius \in (0 - ArgSlack)..2 : CallGaussianBlur(radius)
    \/ \E radius \in (0 - ArgSlack)..2 : CallBoxBlur(radius)
    \/ \E amount \in ((0 - ArgSlack)..0) \cup NoiseMenu \cup NoiseCustom :
          \E n \in {-amount, 0, amount} : \E alternate \in BOOLEAN :
              CallAddNoise(amount, n, alternate)
    \/ \E kernel_size \in (3 - 1 - ArgSlack)..7 : \E weight \in {0, 1} :
          CallCustomFilter(kernel_size, weight)

SpecFilters == FInit /\ [][FNext]_vars

(* ------------------------------ properties ----------------------------- *)
Recs == {log[k] : k \in DOMAIN log}

Pairs == {<<log[k], log[k + 1]>> : k \in 1..(Len(log) - 1)}

Readers == {"undo", "redo", "can_undo", "can_redo"}

\* C1: -1 <= index < len(history), and index = -1 exactly when history is
\* empty; history is empty only after construction or clear (add_state
\* leaves it non-empty, and the other methods keep it empty or non-empty).
C1_HistoryInvariant ==
    /\ -1 <= index
    /\ index < Len(history)
    /\ (index = -1) <=> (history = <<>>)
    /\ \A c \in Recs :
          /\ c.op = "add_state" => c.history # <<>>
          /\ c.op \in Readers => ((c.history = <<>>) <=> (c.pre_history = <<>>))

C1_Witness ==
    /\ driver = "client"
    /\ Len(history) = 3
    /\ index = 1
    /\ \E p \in Pairs : p[1].op = "undo" /\ p[2].op = "redo"

\* C2: add_state(img) never raises and leaves entries = old entries[0..cursor]
\* followed by img and cursor = old cursor + 1, so the cursor is on the last
\* entry, can_redo() is false and what was past the old cursor is gone
\* (A, B, undo, add C gives [A, C] with cursor 1).
C2_AddStateTruncates ==
    \A c \in Recs : c.op = "add_state" =>
        /\ ~c.raised
        /\ c.history = SubSeq(c.pre_history, 1, c.pre_index + 1) \o <<c.arg>>
        /\ c.index = c.pre_index + 1
        /\ c.index = Len(c.history) - 1
        /\ ~can_redo(c.history, c.index)
        /\ (c.pre_history = <<1, 2>> /\ c.pre_index = 0 /\ c.arg = 3)
              => (c.history = <<1, 3>> /\ c.index = 1)

C2_Witness ==
    /\ driver = "client"
    /\ \E p \in Pairs :
          /\ p[1].op = "undo" /\ p[1].pre_history = <<1, 2>> /\ p[1].pre_index = 1
          /\ p[2].op = "add_state" /\ p[2].arg = 3
    /\ history = <<1, 3>>
    /\ index = 1

\* C3: undo() never raises, the empty history included: with cursor > 0 it
\* moves the cursor back by one and returns the entry now at the cursor, with
\* cursor <= 0 it changes nothing and returns the current entry.
C3_UndoNeverRaises ==
    \A c \in Recs : c.op = "undo" =>
        /\ ~c.raised
        /\ c.history = c.pre_history
        /\ c.pre_index > 0 =>
              (c.index = c.pre_index - 1 /\ c.ret = c.pre_history[c.pre_index])
        /\ c.pre_index <= 0 => c.index = c.pre_index
        /\ c.pre_index = 0 => c.ret = c.pre_history[1]

\* C4: redo() never raises, the empty history included: below the last entry
\* it advances the cursor by one and returns the entry there, at the last
\* entry it changes nothing and returns the current entry.
C4_RedoNeverRaises ==
    \A c \in Recs : c.op = "redo" =>
        /\ ~c.raised
        /\ c.history = c.pre_history
        /\ c.pre_index < Len(c.pre_history) - 1 =>
              (c.index = c.pre_index + 1 /\ c.ret = c.pre_history[c.pre_index + 2])
        /\ c.pre_index >= Len(c.pre_history) - 1 => c.index = c.pre_index
        /\ (c.pre_index >= Len(c.pre_history) - 1 /\ c.pre_index >= 0)
              => c.ret = c.pre_history[c.pre_index + 1]

\* C5: undo, redo, can_undo and can_redo leave the entries sequence as it
\* was (raising or not); only add_state and clear are followed by a different
\* sequence.
C5_ReadersKeepEntries ==
    \A c \in Recs :
        /\ c.op \in Readers => c.history = c.pre_history
        /\ c.history # c.pre_history => c.op \in {"add_state", "clear"}

C5_Witness ==
    /\ driver = "client"
    /\ \E p \in Pairs :
          /\ p[1].op = "undo" /\ p[1].pre_index = 2 /\ p[1].index = 1
          /\ p[2].op = "redo" /\ p[2].index = 2
    /\ Len(history) = 3

\* C6: clear() leaves entries = [] and cursor = -1 with can_undo() and
\* can_redo() false, whatever the state before; an add_state(img) that follows
\* it leaves exactly [img] with cursor 0, so nothing older can be reached by
\* undo or redo; a successful open_image of the GUI is this clear followed by
\* this add_state, of a copy of the loaded image.
C6_ClearResets ==
    /\ \A c \in Recs : c.op = "clear" =>
          /\ ~c.raised
          /\ c.history = <<>>
          /\ c.index = -1
          /\ ~can_undo(c.history, c.index)
          /\ ~can_redo(c.history, c.index)
    /\ \A p \in Pairs : (p[1].op = "clear" /\ p[2].op = "add_state") =>
          /\ p[2].pre_history = p[1].history
          /\ p[2].pre_index = p[1].index
          /\ p[2].history = <<p[2].arg>>
          /\ p[2].index = 0
          /\ ~can_undo(p[2].history, p[2].index)
          /\ ~can_redo(p[2].history, p[2].index)
    /\ (ev.name = "open_image" /\ load_image(ev.req.f).ok) =>
          /\ Len(log) >= 2
          /\ LET c == log[Len(log) - 1]
                 d == log[Len(log)]
             IN  /\ c.op = "clear"
                 /\ c.pre_history = ev.pre_history
                 /\ c.pre_index = ev.pre_index
                 /\ d.op = "add_state"
                 /\ d.arg # image
                 /\ heap[d.arg] = heap[image]
                 /\ history = <<d.arg>>
                 /\ index = 0

C6_Witness ==
    /\ driver = "app"
    /\ ev.name = "open_image"
    /\ ev.req.f = "photo.png"
    /\ Len(ev.pre_history) = 2
    /\ ev.pre_index = 0
    /\ Len(history) = 1
    /\ log[Len(log)].op = "add_state"

\* C8: a Filters call that raises commits nothing: after a filter handler
\* or the kernel window's Apply callback in which the Filters method raised,
\* self.image and the History's entries and cursor are what they were before
\* the handler; add_state is invoked only after the Filters call returned.
C8_FailedFilterCommitsNothing ==
    ev.name \in {"filter", "apply_kernel"} =>
        /\ (ev.called /\ ev.raised) =>
              /\ image = ev.pre_image
              /\ history = ev.pre_history
              /\ index = ev.pre_index
        /\ ev.added => (ev.called /\ ~ev.raised)
        /\ ~ev.added => (history = ev.pre_history /\ index = ev.pre_index)

C8_Witness ==
    /\ driver = "app"
    /\ ev.name = "apply_kernel"
    /\ ev.req.p = 7
    /\ ev.called
    /\ ev.raised
    /\ image # None
    /\ Len(history) = 2

\* a call whose parameter is outside the domain the specification states
OutOfDomain(c) ==
    \/ c.f = "solarize" /\ (c.p < 0 \/ c.p > 255)
    \/ c.f = "posterize" /\ (c.p < 1 \/ c.p > 8)
    \/ c.f \in {"gaussian_blur", "box_blur", "add_noise"} /\ c.p < 0
    \/ c.f = "custom_filter" /\ (c.p % 2 = 0 \/ c.p < 3)

\* C9: a Filters method called with a parameter outside its domain raises
\* and returns no image: solarize with threshold < 0 or > 255, posterize with
\* bits < 1 or > 8, gaussian_blur and box_blur with radius < 0, add_noise
\* with amount < 0, custom_filter with an even kernel size or one below 3.
C9_OutOfDomainRaises ==
    OutOfDomain(fcall) => (fout.raised /\ fout.img = NoImage)

\* C10: with a threshold in 0..255 solarize returns an image of the same
\* size in which a channel value v has become 255 - v when v >= threshold and
\* stayed v when v < threshold; all-white 2x2 with threshold 128 gives
\* all-black.
C10_Solarize ==
    (fcall.f = "solarize" /\ fcall.p \in 0..255) =>
        /\ ~fout.raised
        /\ fout.img.w = fin.w /\ fout.img.h = fin.h
        /\ DOMAIN fout.img.px = DOMAIN fin.px
        /\ \A k \in DOMAIN fin.px : \A c \in 1..3 :
              LET v == fin.px[k][c]
              IN  fout.img.px[k][c] = IF v >= fcall.p THEN 255 - v ELSE v
        /\ (fin = Solid(2, 2, White) /\ fcall.p = 128)
              => fout.img = Solid(2, 2, <<0, 0, 0>>)

C10_Witness ==
    /\ fcall = [f |-> "solarize", p |-> 128]
    /\ fin = Ramp
    /\ fin.px[129] = <<128, 127, 135>>
    /\ fout.img.px[129] = <<127, 127, 120>>

\* C7: from a state with cursor > 0, undo() then redo() restores entries and
\* cursor, and redo() returns the entry that was current before the undo; in
\* a non-empty history an undo() at cursor 0 keeps the cursor at 0 and
\* returns entries[0] without raising, however often it is repeated.
C7_UndoRedoRoundTrip ==
    /\ \A p \in Pairs :
          (p[1].op = "undo" /\ p[1].pre_index > 0 /\ p[2].op = "redo") =>
              /\ ~p[1].raised /\ ~p[2].raised
              /\ p[2].history = p[1].pre_history
              /\ p[2].index = p[1].pre_index
              /\ p[2].ret = p[1].pre_history[p[1].pre_index + 1]
    /\ \A c \in Recs :
          (c.op = "undo" /\ c.pre_history # <<>> /\ c.pre_index <= 0) =>
              /\ ~c.raised
              /\ c.index = 0
              /\ c.history = c.pre_history
              /\ c.ret = c.pre_history[1]

C7_Witness ==
    /\ driver = "client"
    /\ \E p \in Pairs :
          /\ p[1].op = "undo" /\ p[1].pre_history = <<1, 2>> /\ p[1].pre_index = 1
          /\ p[2].op = "redo" /\ p[2].ret = 2
    /\ history = <<1, 2>>
    /\ index = 1

\* C11: with bits in 1..8 posterize returns an image of the same size in
\* which a channel value v has become v - (v mod 2^(8 - bits)), its low
\* 8 - bits bits zeroed; posterize(img, 8) is img, and posterize(img, 1)
\* holds no values but 0 and 128.
C11_Posterize ==
    (fcall.f = "posterize" /\ fcall.p \in 1..8) =>
        /\ ~fout.raised
        /\ fout.img.w = fin.w /\ fout.img.h = fin.h
        /\ DOMAIN fout.img.px = DOMAIN fin.px
        /\ \A k \in DOMAIN fin.px : \A c \in 1..3 :
              LET v == fin.px[k][c]
              IN  fout.img.px[k][c] = v - (v % (2 ^ (8 - fcall.p)))
        /\ fcall.p = 8 => fout.img = fin
        /\ fcall.p = 1 =>
              \A k \in DOMAIN fin.px : \A c \in 1..3 : fout.img.px[k][c] \in {0, 128}

C11_Witness ==
    /\ fcall = [f |-> "posterize", p |-> 1]
    /\ fin = Ramp
    /\ fin.px[129] = <<128, 127, 135>>
    /\ fout.img.px[129] = <<128, 0, 128>>

\* C12: invert_colors returns an image of the input's size in which every
\* channel value v has become 255 - v, and invert_colors applied to its own
\* result returns an image equal to the original.
C12_InvertInvolution ==
    /\ fcall.f = "invert" =>
          /\ ~fout.raised
          /\ fout.img.w = fin.w /\ fout.img.h = fin.h
          /\ DOMAIN fout.img.px = DOMAIN fin.px
          /\ \A k \in DOMAIN fin.px : \A c \in 1..3 :
                fout.img.px[k][c] = 255 - fin.px[k][c]
    /\ fcall.f = "invert_twice" => (~fout.raised /\ fout.img = fin)

C12_Witness ==
    /\ fcall.f = "invert_twice"
    /\ fin = Ramp
    /\ fin.px[1] = <<0, 255, 7>>
    /\ invert_colors(fin).img.px[1] = <<255, 0, 248>>
    /\ fout.img.px[1] = <<0, 255, 7>>

\* C13: with amount >= 0 and every sampled noise value n in -amount..amount,
\* add_noise returns, for a channel value v, exactly min(255, max(0, v + n)):
\* nothing wraps around in the 16-bit arithmetic, so a large positive n gives
\* no dark output and a large negative n no bright one.
C13_AddNoiseClamps ==
    (fcall.f = "add_noise" /\ fcall.p >= 0) =>
        /\ ~fout.raised
        /\ DOMAIN fout.img.px = DOMAIN fin.px
        /\ \A k \in DOMAIN fin.px : \A c \in 1..3 :
              LET v == fin.px[k][c]
                  n == fcall.noise[k][c]
              IN  (-fcall.p <= n /\ n <= fcall.p) =>
                      fout.img.px[k][c] = Clip(v + n, 0, 255)

\* the average of the 3x3 neighbourhood of (x, y), coordinates clamped to
\* the image, rounded to the nearest whole number
ClampedAverage(img, x, y, c) ==
    LET total == SumSeq([k \in 1..9 |->
                     Pixel(img, Clip(x + ((k - 1) % 3) - 1, 0, img.w - 1),
                                Clip(y + ((k - 1) \div 3) - 1, 0, img.h - 1))[c]])
    IN  (2 * total + 9) \div 18

\* C14: custom_filter divides the weighted sum by sum(weights), or by 1
\* when that sum is 0, with offset 0: with the all-ones 3x3 kernel every
\* output channel is the rounded average of the 9 edge-clamped neighbours of
\* the input pixel, and with the all-zero 3x3 kernel the call divides by 1
\* and does not fail.
C14_CustomFilterAverages ==
    (fcall.f = "custom_filter" /\ fcall.p = 3) =>
        /\ ~fout.raised
        /\ DOMAIN fout.img.px = DOMAIN fin.px
        /\ fcall.kernel_elements = [k \in 1..9 |-> 1] =>
              \A k \in DOMAIN fin.px : \A c \in 1..3 :
                  fout.img.px[k][c] =
                      ClampedAverage(fin, (k - 1) % fin.w, (k - 1) \div fin.w, c)

\* the objects held in the entries of a history list
Stored(h) == {h[k] : k \in DOMAIN h}

\* C15: the History alone holds the objects in its entries: no entry is an
\* object the caller holds (the object a direct client passed to add_state,
\* the GUI's self.image), and what undo() and redo() return is not the
\* stored object itself.
C15_HistoryOwnsBuffers ==
    /\ driver = "client" => Stored(history) \cap ClientImages = {}
    /\ (driver = "app" /\ image # None) => image \notin Stored(history)
    /\ \A c \in Recs :
          (c.op \in {"undo", "redo"} /\ ~c.raised) => c.ret \notin Stored(c.history)

\* C16: history snapshots are immutable: no GUI event (open, a filter, the
\* kernel window's Apply, undo, redo) changes the pixel content of an image
\* object that exists, so every entry of the history keeps the content it
\* had when it was added; a filter allocates its result and leaves its input
\* as it was, also when the input is the object stored in an entry, as it
\* is after undo or redo.
C16_SnapshotsImmutable ==
    [][\A o \in DOMAIN heap : o \in DOMAIN heap' /\ heap'[o] = heap[o]]_vars

C16_Witness ==
    /\ driver = "app"
    /\ ev.name = "filter"
    /\ ev.req.f = "add_noise"
    /\ ev.called /\ ev.added
    /\ ev.pre_image \in Stored(ev.pre_history)
    /\ ev.pre_image \in Stored(history)
    /\ image # ev.pre_image
    /\ heap[image] # heap[ev.pre_image]

\* C17: in the custom-filter flow an even kernel size, a cancelled size
\* dialog, and an entry that is no number when Apply is pressed are rejected
\* before Filters.custom_filter is called, and self.image and the History's
\* entries and cursor stay as they were; custom_filter is called only with an
\* odd size in 3..9 and size * size numeric weights, those typed in.
C17_CustomFilterRejects ==
    /\ (ev.name = "apply_custom_filter" /\ (ev.req.p = None \/ ev.req.p % 2 = 0)) =>
          /\ ~ev.called
          /\ image = ev.pre_image
          /\ history = ev.pre_history
          /\ index = ev.pre_index
    /\ (ev.name = "apply_kernel"
            /\ \E k \in DOMAIN ev.req.texts : ~ParseFloat(ev.req.texts[k]).ok) =>
          /\ ~ev.called
          /\ image = ev.pre_image
          /\ history = ev.pre_history
          /\ index = ev.pre_index
    /\ (ev.called /\ ev.name \in {"apply_custom_filter", "apply_kernel"}) =>
          /\ ev.name = "apply_kernel"
          /\ ev.args.kernel_size \in 3..9
          /\ ev.args.kernel_size % 2 = 1
          /\ Len(ev.args.kernel_elements) = ev.args.kernel_size * ev.args.kernel_size
          /\ \A k \in DOMAIN ev.args.kernel_elements :
                /\ ev.args.kernel_elements[k] \in Int
                /\ ParseFloat(ev.req.texts[k]) =
                       [ok |-> TRUE, val |-> ev.args.kernel_elements[k]]
    /\ \A k \in DOMAIN windows : windows[k] \in 3..9 /\ windows[k] % 2 = 1

C17_Witness ==
    /\ driver = "app"
    /\ ev.name = "apply_kernel"
    /\ ev.req.p = 3
    /\ ev.req.texts[1] = "abc"
    /\ ~ev.called
    /\ image # None
    /\ Len(history) = 2
    /\ windows = <<3>>

\* C18: after every GUI event, when the history is not empty self.image is
\* not None and has the pixel content of the history entry at the cursor.
C18_ImageIsCurrentEntry ==
    (driver = "app" /\ history # <<>>) =>
        /\ image # None
        /\ index \in 0..(Len(history) - 1)
        /\ heap[image] = heap[history[index + 1]]

\* C19: a Filters method is invoked only while self.image is not None, the
\* kernel window's Apply callback included, whatever events came between the
\* opening of the window and Apply; with no image loaded a filter event
\* changes neither self.image nor the History.
C19_FiltersNeedImage ==
    ev.name \in {"filter", "apply_custom_filter", "apply_kernel"} =>
        /\ ev.called => ev.pre_image # None
        /\ ev.pre_image = None =>
              /\ image = None
              /\ history = ev.pre_history
              /\ index = ev.pre_index

\* C20: the GUI calls History.undo() only after can_undo() returned true and
\* History.redo() only after can_redo() returned true, in the same state, so
\* neither is called on an empty history and neither raises; when the guard
\* is false the GUI's undo or redo leaves self.image, the entries and the
\* cursor as they were.
C20_GuardedUndoRedo ==
    driver = "app" =>
        /\ \A c \in Recs :
              /\ c.op \in {"undo", "redo"} => (~c.raised /\ c.pre_history # <<>>)
              /\ c.op = "undo" => can_undo(c.pre_history, c.pre_index)
              /\ c.op = "redo" => can_redo(c.pre_history, c.pre_index)
        /\ (log # <<>> /\ log[Len(log)].op \in {"undo", "redo"}) =>
              /\ Len(log) = 2
              /\ log[1].op = (IF log[2].op = "undo" THEN "can_undo" ELSE "can_redo")
              /\ log[1].retb
              /\ log[1].history = log[2].pre_history
              /\ log[1].index = log[2].pre_index
        /\ (ev.name = "undo" /\ ~can_undo(ev.pre_history, ev.pre_index)) =>
              /\ ~ev.raised
              /\ log[Len(log)].op = "can_undo" /\ ~log[Len(log)].retb
              /\ image = ev.pre_image
              /\ history = ev.pre_history
              /\ index = ev.pre_index
        /\ (ev.name = "redo" /\ ~can_redo(ev.pre_history, ev.pre_index)) =>
              /\ ~ev.raised
              /\ log[Len(log)].op = "can_redo" /\ ~log[Len(log)].retb
              /\ image = ev.pre_image
              /\ history = ev.pre_history
              /\ index = ev.pre_index

C20_Witness ==
    /\ driver = "app"
    /\ ev.name = "undo"
    /\ ev.pre_history = <<>>
    /\ history = <<>>
    /\ image = None
    /\ log = <<Call("can_redo", None, <<>>, -1, Same(<<>>, -1), FALSE),
               Call("can_undo", None, <<>>, -1, Same(<<>>, -1), FALSE)>>

====
